---------------------------- MODULE Spec2Model ----------------------------
(***************************************************************************)
(* Model of web_app/db/seed_data.py: the generators that seed the database *)
(* with fake users, positions, airdrops, telegram users, vaults and        *)
(* transactions, and the script body that calls them.                      *)
(*                                                                         *)
(* Two specifications share the state:                                     *)
(*   Spec      the module used as a library: its generators called in any  *)
(*             order on one session, with lists the generators returned;   *)
(*   MainSpec  the `if __name__ == "__main__":` block, statement by        *)
(*             statement.                                                  *)
(*                                                                         *)
(* Of every record only the columns that carry identity are kept (ids,     *)
(* foreign keys, unique tokens, symbols, the transaction status); amounts, *)
(* names, prices, flags and dates are random values that no statement of   *)
(* the module reads back.                                                  *)
(***************************************************************************)
EXTENDS Integers, Sequences, FiniteSets

VARIABLES
    pc,         \* the statement of the script body to run next ("lib": imported as a library)
    rng,        \* fake: the state of the pseudo-random generator behind every draw
    seen,       \* fake.unique: the uuid4 values handed out so far
    minted,     \* every value fake.unique.uuid4() returned, in order
    db,         \* the committed rows, per table
    users,      \* the list create_users returned last
    positions,  \* the list create_positions returned last
    last,       \* the last generator call: function, argument size, batch built, return value, session calls
    log,        \* every call made on the session, in order
    error,      \* the exception that ended the run, "none" while it runs
    calls       \* number of generator calls made

vars == <<pc, rng, seen, minted, db, users, positions, last, log, error, calls>>

----------------------------------------------------------------------------
(* Bounds *)

\* range(10) in create_users, scaled down
UserCount == 2
\* size of the uuid4 domain, scaled down so that it can run out
MaxTokens == 10
\* generator calls in one library run
MaxCalls == 3
\* number of states of the pseudo-random generator (and of its seeds)
RngModulus == 16

(* Program constants *)

\* range(2): children per user in every fan-out generator
PerUser == 2

\* None: the value of an id the session never populated
NULL == 0

----------------------------------------------------------------------------
(* Enumerations imported from modules outside this file *)

\* [token.name for token in TokenParams.tokens()]
TokenNames == <<"ETH", "STRK">>

\* [status.value for status in TransactionStatus], in definition order
TransactionStatusValues == <<"A", "B", "C", "D">>

----------------------------------------------------------------------------
(* Helpers *)

Range(s) == {s[i] : i \in 1..Len(s)}

Prefixes(s) == {SubSeq(s, 1, k) : k \in 0..Len(s)}

Min(S) == CHOOSE x \in S : \A y \in S : x <= y


----------------------------------------------------------------------------
(* Python values, where a column can hold more than one type *)

Str(v) == [type |-> "str", value |-> v]
List(v) == [type |-> "list", value |-> v]

----------------------------------------------------------------------------
(* Faker: fake = Faker(), one pseudo-random generator seeded once; every   *)
(* draw is a function of its state and moves it on.  The generator is      *)
(* modelled as a counter modulo RngModulus started at any seed.            *)

RngSkip(x, k) == (x + k) % RngModulus

\* fake.random_element(elements=...): one draw, one element of the list
FakeRandomElement(elements, x) == elements[(x % Len(elements)) + 1]

\* fake.random_choices(elements=...): with no length given, one draw for a
\* length between 1 and len(elements), then one draw per element, with
\* replacement; the result is a list
FakeRandomChoices(elements, x) ==
    LET l == (x % Len(elements)) + 1 IN
    [i \in 1..l |-> FakeRandomElement(elements, RngSkip(x, i))]

----------------------------------------------------------------------------
(* Faker: fake.unique.uuid4() *)

TokenDomain == 1..MaxTokens

\* What one raw fake.uuid4() draw can return once the values in s are out:
\* a value drawn before, or a new one.  uuid values are only ever compared
\* for equality, so the new values are numbered in order of appearance.
Uuid4Draws(s) ==
    s \cup (IF TokenDomain \ s = {} THEN {} ELSE {Min(TokenDomain \ s)})

\* A faulty variant of UniqueUuid4: the plain generator, fake.uuid4()
PlainUuid4(s) == Uuid4Draws(s)

\* fake.unique.uuid4(): the draw is repeated until it gives a value not seen
\* before; no such value left: UniquenessException.  The set of the values
\* the call can return, empty when it raises.
UniqueUuid4(s) == {t \in Uuid4Draws(s) : t \notin s}

\* k calls of fake.unique.uuid4() in a row starting from issued set s: the
\* tokens returned, and whether a call raised (the loop stops there).
RECURSIVE MintRuns(_, _)
MintRuns(s, k) ==
    IF k = 0 THEN {[toks |-> <<>>, raised |-> FALSE]}
    ELSE IF UniqueUuid4(s) = {} THEN {[toks |-> <<>>, raised |-> TRUE]}
    ELSE UNION {{[toks |-> <<t>> \o r.toks, raised |-> r.raised] :
                    r \in MintRuns(s \cup {t}, k - 1)} : t \in UniqueUuid4(s)}

----------------------------------------------------------------------------
(* SQLAlchemy session *)

\* The rows as the table stores them: the database assigns the primary keys
AssignIds(objs, table) ==
    [i \in 1..Len(objs) |-> [objs[i] EXCEPT !.id = Len(table) + i]]

\* A faulty variant of AddAllObjects: objects left as they were built
ObjectsUntouched(objs, table) == objs

\* session.add_all(objs); session.commit(): the objects belong to the
\* session, the flush writes the assigned primary keys back into them
AddAllObjects(objs, table) == AssignIds(objs, table)

\* session.bulk_save_objects(objs); session.commit(): return_defaults is
\* left False, the objects are not attached and keep the id they were built
\* with (none)
BulkSavedObjects(objs, table) == objs

\* add_all then commit: add_all only registers the objects; the INSERTs run
\* in the commit's flush, which the database may reject.  Nothing to write:
\* nothing to reject.
AddAllRuns(batch) ==
    {[events |-> <<"add_all", "commit">>, err |-> "none"]}
    \cup (IF batch = <<>> THEN {}
          ELSE {[events |-> <<"add_all", "commit">>, err |-> "PersistenceFailure"]})

\* A faulty variant of BulkRuns: the commit is issued before the bulk save
BulkRunsCommitFirst(batch) ==
    {[events |-> <<"commit", "bulk_save_objects">>, err |-> "none"]}

\* bulk_save_objects then commit: the INSERTs run at once and may be
\* rejected, and then the commit is never called; or the commit fails
BulkRuns(batch) ==
    {[events |-> <<"bulk_save_objects", "commit">>, err |-> "none"]}
    \cup (IF batch = <<>> THEN {}
          ELSE {[events |-> <<"bulk_save_objects">>, err |-> "PersistenceFailure"],
                [events |-> <<"bulk_save_objects", "commit">>, err |-> "PersistenceFailure"]})

----------------------------------------------------------------------------
(* Python: what a call leaves behind *)

ListRet(l) == [kind |-> "list", value |-> l]
NoneRet == [kind |-> "None", value |-> <<>>]
Raised == [kind |-> "raise", value |-> <<>>]

\* A faulty variant of AfterCall: the exception is swallowed and the caller goes on
AfterCallSwallowed(err, nxt) == nxt

\* No try/except anywhere: an exception leaves the caller at once
AfterCall(err, nxt) == IF err = "none" THEN nxt ELSE "aborted"

\* The bookkeeping of one generator call
Returns(fn, args, batch, ret, evs, err, nxt) ==
    /\ last' = [fn |-> fn, args |-> args, batch |-> batch, ret |-> ret, events |-> evs]
    /\ log' = log \o [i \in 1..Len(evs) |-> [call |-> calls + 1, fn |-> fn, op |-> evs[i]]]
    /\ error' = IF err = "none" THEN error ELSE err
    /\ pc' = AfterCall(err, nxt)
    /\ calls' = calls + 1

\* A faulty variant of ParentOf: every record tagged with the first user
ParentOfFirst(j) == 1

\* The parent of the j-th record of a fan-out batch: the outer loop's index
ParentOf(j) == ((j - 1) \div PerUser) + 1

----------------------------------------------------------------------------
(* The batches the generators build *)

\* create_users: User objects, each with a fresh wallet_id
UserBatch(toks) ==
    [i \in 1..Len(toks) |-> [id |-> NULL, wallet_id |-> toks[i]]]

\* token_symbol=fake.random_element(elements=[token.name ...])
PositionSymbol(x) == Str(FakeRandomElement(TokenNames, x))

\* create_positions: two Position objects per user
PositionBatch(us, x) ==
    [j \in 1..(Len(us) * PerUser) |->
        [id |-> NULL, user_id |-> us[ParentOf(j)].id,
         token_symbol |-> PositionSymbol(RngSkip(x, j - 1))]]

\* create_airdrops: two AirDrop objects per user
AirdropBatch(us) ==
    [j \in 1..(Len(us) * PerUser) |-> [id |-> NULL, user_id |-> us[ParentOf(j)].id]]

\* create_telegram_users: two TelegramUser objects per user, each with a
\* fresh telegram_id, tied to the user by wallet_id
TelegramBatch(us, toks) ==
    [j \in 1..(Len(us) * PerUser) |->
        [id |-> NULL, telegram_id |-> toks[j], wallet_id |-> us[ParentOf(j)].wallet_id]]

\* symbol=fake.random_choices(elements=[token.name ...])
VaultSymbol(x) == List(FakeRandomChoices(TokenNames, x))

\* create_vaults: two Vault objects per user, from record j on with the
\* generator in state x; the objects and the generator's state after them
RECURSIVE VaultRun(_, _, _)
VaultRun(us, j, x) ==
    IF j > Len(us) * PerUser THEN [objs |-> <<>>, rng |-> x]
    ELSE LET sym == VaultSymbol(x)
             rest == VaultRun(us, j + 1, RngSkip(x, 1 + Len(sym.value)))
         IN [objs |-> <<[id |-> NULL, user_id |-> us[ParentOf(j)].id, symbol |-> sym]>>
                      \o rest.objs,
             rng |-> rest.rng]

\* A faulty variant of StatusAt: always the first status
StatusAtFirst(statuses, i) == statuses[1]

\* transaction_statuses[i]
StatusAt(statuses, i) == statuses[i]

\* create_transaction: for every position, one Transaction per status, in
\* the order of the status list, each with a fresh transaction_hash
TransactionBatch(ps, toks) ==
    LET K == Len(TransactionStatusValues) IN
    [j \in 1..(Len(ps) * K) |->
        [id |-> NULL,
         position_id |-> ps[((j - 1) \div K) + 1].id,
         status |-> StatusAt(TransactionStatusValues, ((j - 1) % K) + 1),
         transaction_hash |-> toks[j]]]

----------------------------------------------------------------------------
(* The generators.  nxt: where the caller goes on when the call returns. *)

\* A generator that stopped on fake.unique's UniquenessException: nothing
\* was handed to the session
RaisedUnique(fn, args, nxt) ==
    /\ db' = db
    /\ Returns(fn, args, <<>>, Raised, <<>>, "UniquenessException", nxt)

create_users(nxt) ==
    \E m \in MintRuns(seen, UserCount) :
        /\ seen' = seen \cup Range(m.toks)
        /\ minted' = minted \o m.toks
        /\ UNCHANGED <<rng, positions>>
        /\ IF m.raised
           THEN /\ users' = users
                /\ RaisedUnique("create_users", <<>>, nxt)
           ELSE LET batch == UserBatch(m.toks) IN
                \E r \in AddAllRuns(batch) :
                /\ db' = IF r.err = "none"
                         THEN [db EXCEPT !.users = @ \o AssignIds(batch, @)]
                         ELSE db
                /\ users' = IF r.err = "none"
                            THEN AddAllObjects(batch, db.users)
                            ELSE users
                /\ Returns("create_users", <<>>, batch,
                           IF r.err = "none"
                           THEN ListRet(AddAllObjects(batch, db.users)) ELSE Raised,
                           r.events, r.err, nxt)

create_positions(us, nxt) ==
    LET batch == PositionBatch(us, rng) IN
        /\ rng' = RngSkip(rng, Len(batch))
        /\ UNCHANGED <<seen, minted, users>>
        /\ IF batch # <<>>
           THEN \E r \in BulkRuns(batch) :
                /\ db' = IF r.err = "none"
                         THEN [db EXCEPT !.positions = @ \o AssignIds(batch, @)]
                         ELSE db
                /\ positions' = IF r.err = "none"
                                THEN BulkSavedObjects(batch, db.positions)
                                ELSE positions
                /\ Returns("create_positions", us, batch,
                           IF r.err = "none"
                           THEN ListRet(BulkSavedObjects(batch, db.positions)) ELSE Raised,
                           r.events, r.err, nxt)
           ELSE /\ db' = db
                /\ positions' = batch
                /\ Returns("create_positions", us, batch, ListRet(batch), <<>>, "none", nxt)

create_airdrops(us, nxt) ==
    LET batch == AirdropBatch(us) IN
        /\ UNCHANGED <<rng, seen, minted, users, positions>>
        /\ IF batch # <<>>
           THEN \E r \in BulkRuns(batch) :
                /\ db' = IF r.err = "none"
                         THEN [db EXCEPT !.airdrops = @ \o AssignIds(batch, @)]
                         ELSE db
                /\ Returns("create_airdrops", us, batch,
                           IF r.err = "none" THEN NoneRet ELSE Raised,
                           r.events, r.err, nxt)
           ELSE /\ db' = db
                /\ Returns("create_airdrops", us, batch, NoneRet, <<>>, "none", nxt)

create_telegram_users(us, nxt) ==
    \E m \in MintRuns(seen, Len(us) * PerUser) :
        /\ seen' = seen \cup Range(m.toks)
        /\ minted' = minted \o m.toks
        /\ UNCHANGED <<rng, users, positions>>
        /\ IF m.raised
           THEN RaisedUnique("create_telegram_users", us, nxt)
           ELSE LET batch == TelegramBatch(us, m.toks) IN
                \E r \in BulkRuns(batch) :
                /\ db' = IF r.err = "none"
                         THEN [db EXCEPT !.telegram_users = @ \o AssignIds(batch, @)]
                         ELSE db
                /\ Returns("create_telegram_users", us, batch,
                           IF r.err = "none" THEN NoneRet ELSE Raised,
                           r.events, r.err, nxt)

create_vaults(us, nxt) ==
    LET run == VaultRun(us, 1, rng)
        batch == run.objs
    IN  /\ rng' = run.rng
        /\ UNCHANGED <<seen, minted, users, positions>>
        /\ IF batch # <<>>
           THEN \E r \in BulkRuns(batch) :
                /\ db' = IF r.err = "none"
                         THEN [db EXCEPT !.vaults = @ \o AssignIds(batch, @)]
                         ELSE db
                /\ Returns("create_vaults", us, batch,
                           IF r.err = "none" THEN NoneRet ELSE Raised,
                           r.events, r.err, nxt)
           ELSE /\ db' = db
                /\ Returns("create_vaults", us, batch, NoneRet, <<>>, "none", nxt)

create_transaction(ps, nxt) ==
    \E m \in MintRuns(seen, Len(ps) * Len(TransactionStatusValues)) :
        /\ seen' = seen \cup Range(m.toks)
        /\ minted' = minted \o m.toks
        /\ UNCHANGED <<rng, users, positions>>
        /\ IF m.raised
           THEN RaisedUnique("create_transaction", ps, nxt)
           ELSE LET batch == TransactionBatch(ps, m.toks) IN
                \E r \in AddAllRuns(batch) :
                /\ db' = IF r.err = "none"
                         THEN [db EXCEPT !.transactions = @ \o AssignIds(batch, @)]
                         ELSE db
                /\ Returns("create_transaction", ps, batch,
                           IF r.err = "none" THEN NoneRet ELSE Raised,
                           r.events, r.err, nxt)

\* create_extra_deposits is neither defined nor imported: looking the name
\* up raises NameError before anything is called
create_extra_deposits(nxt) ==
    /\ error' = "NameError"
    /\ pc' = AfterCall("NameError", nxt)
    /\ UNCHANGED <<rng, seen, minted, db, users, positions, last, log, calls>>

----------------------------------------------------------------------------
(* State after import, before the first call *)

EmptyDb ==
    [users |-> <<>>, positions |-> <<>>, airdrops |-> <<>>,
     telegram_users |-> <<>>, vaults |-> <<>>, transactions |-> <<>>]

Fresh ==
    /\ rng \in 0..(RngModulus - 1)
    /\ seen = {}
    /\ minted = <<>>
    /\ db = EmptyDb
    /\ users = <<>>
    /\ positions = <<>>
    /\ last = [fn |-> "none", args |-> <<>>, batch |-> <<>>, ret |-> NoneRet, events |-> <<>>]
    /\ log = <<>>
    /\ error = "none"
    /\ calls = 0

----------------------------------------------------------------------------
(* The module as a library: the generators called on one session, in any   *)
(* order, with the lists earlier calls returned (or the first few of them) *)

Init == pc = "lib" /\ Fresh

CallCreateUsers ==
    pc = "lib" /\ calls < MaxCalls /\ create_users("lib")

CallCreatePositions ==
    pc = "lib" /\ calls < MaxCalls /\ \E us \in Prefixes(users) : create_positions(us, "lib")

CallCreateAirdrops ==
    pc = "lib" /\ calls < MaxCalls /\ \E us \in Prefixes(users) : create_airdrops(us, "lib")

CallCreateTelegramUsers ==
    pc = "lib" /\ calls < MaxCalls /\ \E us \in Prefixes(users) : create_telegram_users(us, "lib")

CallCreateVaults ==
    pc = "lib" /\ calls < MaxCalls /\ \E us \in Prefixes(users) : create_vaults(us, "lib")

CallCreateTransaction ==
    pc = "lib" /\ calls < MaxCalls /\ \E ps \in Prefixes(positions) : create_transaction(ps, "lib")

Next ==
    \/ CallCreateUsers
    \/ CallCreatePositions
    \/ CallCreateAirdrops
    \/ CallCreateTelegramUsers
    \/ CallCreateVaults
    \/ CallCreateTransaction

Spec == Init /\ [][Next]_vars

----------------------------------------------------------------------------
(* The script body: with SessionLocal() as session: ...                    *)
(* pc names the statement to run next.  The statements are taken in the    *)
(* order written; an exception leaves the block (pc = "aborted"), which    *)
(* closes the session and ends the process.  Looking up                    *)
(* create_extra_deposits always raises, so the two arms after it are       *)
(* written as in the source but never taken.                               *)

MainInit == pc = "create_users" /\ Fresh

MainStep ==
    CASE pc = "create_users" -> create_users("create_positions")
      [] pc = "create_positions" -> create_positions(users, "create_extra_deposits")
      [] pc = "create_extra_deposits" -> create_extra_deposits("create_vaults")
      [] pc = "create_vaults" -> create_vaults(users, "create_transaction")
      [] pc = "create_transaction" -> create_transaction(positions, "done")
      [] OTHER -> FALSE

MainNext == MainStep

MainSpec == MainInit /\ [][MainNext]_vars

----------------------------------------------------------------------------
(* Properties *)

FanOut == {"create_positions", "create_airdrops", "create_telegram_users", "create_vaults"}

\* The last call got as far as building its batch (fake.unique did not raise)
Built == ~(last.ret.kind = "raise" /\ last.events = <<>>)

\* The column of a child record that names its user, and the user's value of it
ParentKey(fn, rec) == IF fn = "create_telegram_users" THEN rec.wallet_id ELSE rec.user_id
UserKey(fn, u) == IF fn = "create_telegram_users" THEN u.wallet_id ELSE u.id

Distinct(s) == \A i, j \in 1..Len(s) : i # j => s[i] # s[j]

IsPrefix(s, t) == Len(s) <= Len(t) /\ SubSeq(t, 1, Len(s)) = s

Submits == {"add_all", "bulk_save_objects"}

\* C1: create_transaction given P positions builds exactly P * K
\* transactions (K statuses), and for each position, in order, one
\* transaction per status, in the order of the status list, each status once.
C1_TransactionPerStatus ==
    (last.fn = "create_transaction" /\ Built) =>
        LET K == Len(TransactionStatusValues)
            P == Len(last.args)
        IN  /\ Len(last.batch) = P * K
            /\ \A p \in 1..P :
                /\ \A k \in 1..K :
                    /\ last.batch[(p - 1) * K + k].status = TransactionStatusValues[k]
                    /\ last.batch[(p - 1) * K + k].position_id = last.args[p].id
                /\ \A v \in Range(TransactionStatusValues) :
                    Cardinality({k \in 1..K : last.batch[(p - 1) * K + k].status = v}) = 1

C1_Witness ==
    /\ last.fn = "create_transaction"
    /\ Len(last.args) = PerUser
    /\ Len(last.batch) = PerUser * Len(TransactionStatusValues)
    /\ error = "none"

\* C2: a fan-out generator given C > 0 users builds exactly C * 2 records,
\* and the records carrying a user's identifier are exactly that user's two.
C2_TwoChildrenPerUser ==
    (last.fn \in FanOut /\ Built /\ Len(last.args) > 0) =>
        /\ Len(last.batch) = Len(last.args) * PerUser
        /\ \A i \in 1..Len(last.args) :
            {j \in 1..Len(last.batch) :
                ParentKey(last.fn, last.batch[j]) = UserKey(last.fn, last.args[i])}
            = ((i - 1) * PerUser + 1)..(i * PerUser)

C2_Witness ==
    /\ last.fn = "create_telegram_users"
    /\ Len(last.args) = UserCount
    /\ Len(last.batch) = UserCount * PerUser
    /\ error = "none"

\* C3: the unique tokens minted in a run (wallet_id, telegram_id,
\* transaction_hash) are pairwise distinct across all calls, in the order
\* minted and in the committed rows; a generator stops on fake.unique's
\* error only when no unused token is left, and then hands nothing over.
C3_TokensDistinct ==
    /\ Distinct(minted)
    /\ Distinct([i \in 1..Len(db.users) |-> db.users[i].wallet_id]
                \o [i \in 1..Len(db.telegram_users) |-> db.telegram_users[i].telegram_id]
                \o [i \in 1..Len(db.transactions) |-> db.transactions[i].transaction_hash])
    /\ Range(minted) = seen
    /\ error = "UniquenessException" =>
        (seen = TokenDomain /\ last.batch = <<>> /\ last.events = <<>> /\ pc = "aborted")

C3_Witness ==
    /\ error = "UniquenessException"
    /\ last.fn = "create_transaction"
    /\ db.users # <<>>
    /\ Len(minted) = MaxTokens

\* C4: a fan-out generator or create_transaction given an empty list
\* returns nothing, raises nothing and makes no call on the session: no
\* bulk save, no add, no commit.
C4_EmptyParentsNoWrites ==
    (last.fn \in FanOut \cup {"create_transaction"} /\ last.args = <<>>) =>
        /\ last.ret.kind # "raise"
        /\ last.ret.value = <<>>
        /\ last.events = <<>>

\* C5: every transaction create_transaction builds carries as position_id
\* the id the database assigned to a position committed earlier in the run,
\* never an unassigned one.
C5_PositionIdsAssigned ==
    (last.fn = "create_transaction" /\ Built) =>
        \A j \in 1..Len(last.batch) :
            /\ last.batch[j].position_id # NULL
            /\ \E row \in Range(db.positions) : row.id = last.batch[j].position_id

\* C6: every child record (Position, Vault, AirDrop, TelegramUser) names a
\* user that create_users committed earlier in the run: the key it carries
\* is assigned and is the key of a committed user row.
C6_ChildrenReferenceUsers ==
    (last.fn \in FanOut /\ Built) =>
        \A j \in 1..Len(last.batch) :
            /\ ParentKey(last.fn, last.batch[j]) # NULL
            /\ \E row \in Range(db.users) :
                UserKey(last.fn, row) = ParentKey(last.fn, last.batch[j])

C6_Witness ==
    /\ last.fn = "create_vaults"
    /\ Len(last.batch) = UserCount * PerUser
    /\ db.vaults # <<>>

\* C7: unless the database rejects a batch, the script, once it has
\* stopped, has run users, positions, vaults and transactions to the end
\* with each batch committed.
C7_RunCompletes ==
    (pc \in {"done", "aborted"} /\ error # "PersistenceFailure") =>
        /\ pc = "done"
        /\ db.users # <<>>
        /\ db.positions # <<>>
        /\ db.vaults # <<>>
        /\ db.transactions # <<>>

\* C8: the script stops at the first error: the error stays as raised, no
\* call is made on the session afterwards, and the rows committed before
\* stay (tables only ever grow; the failing stage itself commits nothing).
C8_FailFast ==
    /\ [](error # "none" <=> pc = "aborted")
    /\ [][error # "none" => (error' = error /\ log' = log /\ db' = db /\ pc' = pc)]_vars
    /\ [][(error = "none" /\ error' # "none") => db' = db]_vars
    /\ [][\A t \in DOMAIN db : IsPrefix(db[t], db'[t])]_vars

C8_Witness ==
    /\ pc = "aborted"
    /\ error = "PersistenceFailure"
    /\ db.users # <<>>
    /\ last.fn = "create_positions"

\* C9: a generator that built a non-empty batch and returned made exactly
\* one submit then one commit; over the run the session sees each call's
\* submit directly followed by its own commit, calls in order, never
\* interleaved (a lone submit only as the last event of a failed run).
C9_SubmitThenCommit ==
    /\ (Built /\ last.batch # <<>> /\ error = "none") =>
        /\ Len(last.events) = 2
        /\ last.events[1] \in Submits
        /\ last.events[2] = "commit"
    /\ \A i \in 1..Len(log) :
        /\ log[i].op \in Submits =>
            \/ i < Len(log) /\ log[i + 1].op = "commit" /\ log[i + 1].call = log[i].call
            \/ i = Len(log) /\ error = "PersistenceFailure"
        /\ log[i].op = "commit" =>
            i > 1 /\ log[i - 1].op \in Submits /\ log[i - 1].call = log[i].call
        /\ i < Len(log) => log[i].call <= log[i + 1].call
        /\ Cardinality({k \in 1..Len(log) : log[k].call = log[i].call}) <= 2

C9_Witness ==
    /\ error = "none"
    /\ Len(log) = 2 * MaxCalls
    /\ last.fn = "create_transaction"
    /\ last.batch # <<>>
    /\ db.positions # <<>>

\* C10: every Position and Vault built holds in its symbol column one name
\* of the token list: a single string, not a collection.
C10_SymbolIsOneToken ==
    (last.fn \in {"create_positions", "create_vaults"}) =>
        \A j \in 1..Len(last.batch) :
            LET sym == IF last.fn = "create_positions"
                       THEN last.batch[j].token_symbol ELSE last.batch[j].symbol
            IN  /\ sym.type = "str"
                /\ sym.value \in Range(TokenNames)

=============================================================================
